---- MODULE Spec2Model ----
(***************************************************************************)
(* Model of src/Metatrader/start.py: the MetaTrader5 provisioning script.  *)
(*                                                                         *)
(*  - the download manager (MT5Installer.download_file) with its cache     *)
(*    directory, sidecar metadata records and integrity verification;      *)
(*  - the shutdown flag (GracefulKiller.kill_now) set by the signal        *)
(*    handler, which may run between any two steps of the main thread.     *)
(*                                                                         *)
(* The main thread's code is cut into atomic steps at the points where it  *)
(* reads kill_now: between two reads a delivered signal changes nothing    *)
(* the thread can see, so each step holds at most one read of the flag.    *)
(*                                                                         *)
(* Files: a destination path /tmp/<name> and the cache file                *)
(* /config/.cache/<name> are directory entries.  Path.link_to (os.link)    *)
(* makes the two entries name ONE file, so "linked" records that both      *)
(* entries of a name are the same inode: a write through one is seen       *)
(* through the other, rename(2) between them does nothing, os.link onto an *)
(* existing entry raises FileExistsError.                                  *)
(***************************************************************************)
EXTENDS Integers, Sequences, FiniteSets, TLC

(* ------------------------------ bounds -------------------------------- *)
\* chunks of one response body (iter_content yields NumChunks chunks)
NumChunks == 2
\* the clock (in days) stops advancing here
MaxNow == 8
\* download_file calls the test driver of Spec makes
MaxCalls == 3

(* -------------------------- program constants ------------------------- *)
\* timedelta(days=7) of the cache validity test
CACHE_TTL_DAYS == 7

mono_url == "https://dl.winehq.org/wine/wine-mono/8.0.0/wine-mono-8.0.0-x86.msi"
python_url == "https://www.python.org/ftp/python/3.9.0/python-3.9.0.exe"
mt5_download_url == "https://download.mql5.com/cdn/web/metaquotes.ltd/mt5/mt5setup.exe"

Urls == {mono_url, python_url, mt5_download_url}

\* dest_path.name of the three installers the pipeline fetches
mono_installer == "mono.msi"
mt5_installer == "mt5setup.exe"
python_installer == "python-installer.exe"

\* Every destination file name of the model: the pipeline's three, and the
\* two names KNOWN_CHECKSUMS has entries for.
DestNames ==
    {mono_installer, mt5_installer, python_installer,
     "wine-mono-8.0.0-x86.msi", "python-3.9.0.exe"}

(* ------------------------------ contents ------------------------------ *)
\* A file's content is the sequence of the chunks written to it.  The server
\* of url u answers with one of two bodies of the same size: variant 1 (the
\* published artifact) or variant 2 (other content: tampered or replaced).
UrlId(u) ==
    CASE u = mono_url -> 1
      [] u = python_url -> 2
      [] u = mt5_download_url -> 3

Variants == {1, 2}

Body(u, v) == [k \in 1..NumChunks |-> 2 * (UrlId(u) - 1) + v]

\* hashlib.sha256 over the file's blocks: a digest folded over the content,
\* one-to-one on the contents of the model (chunk values are below 7), and
\* never 0, which stands for "no checksum" (None).
RECURSIVE Sha256Fold(_, _)
Sha256Fold(h, data) ==
    IF data = <<>> THEN h
    ELSE Sha256Fold(7 * h + Head(data), Tail(data))

_calculate_checksum(data) == Sha256Fold(1, data)

NoChecksum == 0

\* KNOWN_CHECKSUMS: file name -> digest of the published artifact
KNOWN_CHECKSUMS ==
    [n \in {"wine-mono-8.0.0-x86.msi", "python-3.9.0.exe"} |->
        IF n = "wine-mono-8.0.0-x86.msi"
        THEN _calculate_checksum(Body(mono_url, 1))
        ELSE _calculate_checksum(Body(python_url, 1))]

\* KNOWN_CHECKSUMS.get(filename)
KnownChecksumsGet(filename) ==
    IF filename \in DOMAIN KNOWN_CHECKSUMS THEN KNOWN_CHECKSUMS[filename]
    ELSE NoChecksum

\* expected_checksum or KNOWN_CHECKSUMS.get(filename)
ResolveExpected(expected_checksum, filename) ==
    IF expected_checksum # NoChecksum THEN expected_checksum
    ELSE KnownChecksumsGet(filename)

\* (mutant) a verifier that accepts every file
VerifyAcceptsAll(data, expected_checksum) == TRUE

\* _verify_checksum: passes when no checksum is known
_verify_checksum(data, expected_checksum) ==
    IF expected_checksum = NoChecksum THEN TRUE
    ELSE _calculate_checksum(data) = expected_checksum

(* ----------------------------- file system ---------------------------- *)
NoFile == [ex |-> FALSE, data |-> <<>>]

EmptyFs ==
    [tmp |-> [n \in DestNames |-> NoFile],
     cache |-> [n \in DestNames |-> NoFile],
     linked |-> [n \in DestNames |-> FALSE]]

\* open(dest_path, 'wb'): truncates the file the entry names (and so the
\* cache entry too when both name the same inode), or creates a new file.
FsOpenWb(f, n) ==
    [f EXCEPT !.tmp[n] = [ex |-> TRUE, data |-> <<>>],
              !.cache[n] = IF f.linked[n] THEN [ex |-> TRUE, data |-> <<>>] ELSE @]

\* f.write(chunk)
FsWrite(f, n, chunk) ==
    [f EXCEPT !.tmp[n].data = Append(@, chunk),
              !.cache[n].data = IF f.linked[n] THEN Append(@, chunk) ELSE @]

\* dest_path.unlink(): removes the entry; the inode lives on under the
\* cache entry when it was linked there.
FsUnlink(f, n) ==
    [f EXCEPT !.tmp[n] = NoFile, !.linked[n] = FALSE]

\* dest_path.link_to(cache_file), the cache entry absent
FsLinkTo(f, n) ==
    [f EXCEPT !.cache[n] = f.tmp[n], !.linked[n] = TRUE]

\* (mutant) the cached file is copied to the destination and kept
FsRenameCopies(f, n) ==
    IF f.linked[n] THEN f
    ELSE [f EXCEPT !.tmp[n] = f.cache[n]]

\* cache_file.rename(dest_path): replaces the destination entry, except
\* that renaming one hard link of a file onto another does nothing.
FsRename(f, n) ==
    IF f.linked[n] THEN f
    ELSE [f EXCEPT !.tmp[n] = f.cache[n], !.cache[n] = NoFile]

(* ------------------------------ metadata ------------------------------ *)
\* The sidecar <md5(url)>.meta of a url: absent, unparsable, or the record
\* _save_cache_metadata wrote.
NoMeta == [st |-> "absent", timestamp |-> 0, checksum |-> NoChecksum]

_save_cache_metadata(m, url, timestamp, checksum) ==
    [m EXCEPT ![url] = [st |-> "ok", timestamp |-> timestamp, checksum |-> checksum]]

\* (mutant) the age test turned round
CacheValidInverted(f, m, url, n, t) ==
    /\ f.cache[n].ex
    /\ m[url].st = "ok"
    /\ t - m[url].timestamp > CACHE_TTL_DAYS

\* cache_file.exists() and cache_metadata, and the age test
CacheValid(f, m, url, n, t) ==
    /\ f.cache[n].ex
    /\ m[url].st = "ok"
    /\ t - m[url].timestamp < CACHE_TTL_DAYS

VARIABLES
    kill_now,   \* GracefulKiller.kill_now
    now,        \* datetime.now(), in days
    fs,         \* /tmp and the cache directory
    meta,       \* the sidecar metadata records, by url
    dl,         \* the running download_file call
    prev,       \* the download_file call that returned last
    ncalls,     \* download_file calls made by the driver
    run,        \* where MT5Installer.run() stands
    host,       \* what is installed under the wine prefix
    procs,      \* MT5Installer.processes
    inst,       \* the MetaTrader5 installer process of install_mt5
    started,    \* the steps run() has started, in order
    stat        \* what the running step has done so far

\* the variables of the pipeline
pvars == <<run, host, procs, inst, started, stat>>

vars == <<kill_now, now, fs, meta, dl, prev, ncalls, pvars>>

IdleFrame ==
    [pc |-> "idle", url |-> mono_url, name |-> mono_installer,
     expected |-> NoChecksum, body |-> <<>>, written |-> 0,
     result |-> FALSE, how |-> "none", net |-> 0, late |-> 0,
     verified |-> FALSE, sig |-> -1,
     pre |-> [fs |-> EmptyFs, meta |-> [u \in Urls |-> NoMeta],
              kill |-> FALSE, now |-> 0]]

NoPrev ==
    [how |-> "none", url |-> mono_url, name |-> mono_installer, linked |-> FALSE]

\* run() not called: the state the driver of download_file works in
NoRun ==
    [pc |-> "none", i |-> 1, pkg |-> 1, elapsed |-> 0, k |-> 1,
     observed |-> FALSE, exc |-> FALSE, cleanups |-> 0,
     unseen |-> FALSE, soft |-> FALSE, port |-> "none"]

NoHost == [mono |-> FALSE, mt5 |-> FALSE, python |-> FALSE]

NoProcess == [state |-> "none", terms |-> 0]

NoStat ==
    [cmds |-> 0, net |-> 0, held |-> FALSE, host0 |-> NoHost,
     how |-> "none", flagged |-> FALSE, ran |-> NoChecksum]

\* MT5Installer.__init__: the flag unset, no process tracked, and a cache
\* directory that holds nothing yet
InitInstaller ==
    /\ kill_now = FALSE
    /\ now = 0
    /\ fs = EmptyFs
    /\ meta = [u \in Urls |-> NoMeta]
    /\ dl = IdleFrame
    /\ prev = NoPrev
    /\ ncalls = 0
    /\ procs = <<>>
    /\ inst = NoProcess
    /\ started = <<>>
    /\ stat = NoStat

Init ==
    /\ InitInstaller
    /\ run = NoRun
    /\ host = NoHost

\* the frame of a call download_file(url, dest_path, expected_checksum)
NewFrame(url, n, expected_checksum) ==
    [IdleFrame EXCEPT !.pc = "begin", !.url = url, !.name = n,
        !.expected = expected_checksum]

\* return <result>
Return(frame, result, how) ==
    [frame EXCEPT !.pc = "ret", !.result = result, !.how = how]

(* --------------------------- download_file ---------------------------- *)
\* (mutant) download_file without its entry test of the flag
EntryFlagIgnored(flag) == FALSE

\* Line 140: if self.killer.kill_now
EntryFlagSet(flag) == flag

\* (mutant) a chunk loop that never polls the flag
ChunkFlagIgnored(flag) == FALSE

\* Line 168: if self.killer.kill_now, inside the chunk loop
ChunkFlagSet(flag) == flag

\* (mutant) a download_file whose exceptions reach the caller
ExceptionEscapes(frame) == [frame EXCEPT !.pc = "raised"]

\* Lines 198-200: except Exception: log, return False
ExceptClause(frame) == Return(frame, FALSE, "error")

\* Lines 138-166: the flag test, the cache lookup, the cache hit, or the
\* request and the opening of the destination file.
DlBegin ==
    /\ dl.pc = "begin"
    /\ LET \* dl.pre is history: the state the call found on entry
           fr == [dl EXCEPT !.pre = [fs |-> fs, meta |-> meta,
                                     kill |-> kill_now, now |-> now]]
       IN IF EntryFlagSet(kill_now)
          THEN /\ dl' = Return(fr, FALSE, "cancelled")
               /\ UNCHANGED fs
          ELSE IF meta[dl.url].st = "corrupt"
          THEN \* json.load raises; the except clause returns False
               /\ dl' = ExceptClause(fr)
               /\ UNCHANGED fs
          ELSE IF CacheValid(fs, meta, dl.url, dl.name, now)
          THEN /\ fs' = FsRename(fs, dl.name)
               /\ dl' = Return(fr, TRUE, "hit")
          ELSE \/ \* session.get or raise_for_status raises
                  /\ dl' = ExceptClause([fr EXCEPT !.net = @ + 1])
                  /\ UNCHANGED fs
               \/ \E v \in Variants :
                     /\ dl' = [fr EXCEPT !.net = @ + 1, !.body = Body(dl.url, v),
                                         !.pc = "poll"]
                     /\ fs' = FsOpenWb(fs, dl.name)
    /\ UNCHANGED <<kill_now, now, meta, prev, ncalls, pvars>>

\* Lines 167-170: the next chunk has arrived; the flag is polled.
DlPoll ==
    /\ dl.pc = "poll"
    /\ dl.written < Len(dl.body)
    /\ dl' = IF ChunkFlagSet(kill_now) THEN Return(dl, FALSE, "interrupted")
             ELSE [dl EXCEPT !.pc = "write"]
    /\ UNCHANGED <<kill_now, now, fs, meta, prev, ncalls, pvars>>

\* Lines 172-174: the chunk is written.
DlWrite ==
    /\ dl.pc = "write"
    /\ fs' = FsWrite(fs, dl.name, dl.body[dl.written + 1])
    /\ dl' = [dl EXCEPT !.pc = "poll", !.written = @ + 1,
                        !.late = IF kill_now THEN @ + 1 ELSE @]
    /\ UNCHANGED <<kill_now, now, meta, prev, ncalls, pvars>>

\* Lines 180-196: the body is exhausted; verification, then the cache.
DlFinish ==
    /\ dl.pc = "poll"
    /\ dl.written = Len(dl.body)
    /\ LET expected == ResolveExpected(dl.expected, dl.name)
           data == fs.tmp[dl.name].data
           fr == [dl EXCEPT !.verified = TRUE]
       IN IF ~_verify_checksum(data, expected)
          THEN /\ fs' = FsUnlink(fs, dl.name)
               /\ dl' = Return(fr, FALSE, "mismatch")
               /\ UNCHANGED meta
          ELSE IF fs.cache[dl.name].ex
          THEN \* os.link raises FileExistsError; the except clause returns False
               /\ dl' = ExceptClause(fr)
               /\ UNCHANGED <<fs, meta>>
          ELSE /\ fs' = FsLinkTo(fs, dl.name)
               /\ meta' = _save_cache_metadata(meta, dl.url, now,
                                               _calculate_checksum(data))
               /\ dl' = Return(fr, TRUE, "downloaded")
    /\ UNCHANGED <<kill_now, now, prev, ncalls, pvars>>

(* ------------------------------ signals ------------------------------- *)
\* The chunk polls still ahead of a download_file call that is streaming
\* (-1 when it is not streaming).
PollsAhead(frame) ==
    CASE frame.pc = "poll" -> Len(frame.body) - frame.written
      [] frame.pc = "write" -> Len(frame.body) - frame.written - 1
      [] OTHER -> -1

\* (mutant) a handler that flips the flag
ToggleFlag(flag) == ~flag

\* Line 72: self.kill_now = True
SetFlag(flag) == TRUE

\* GracefulKiller._handle_signal.  dl.sig is history: where the running
\* download_file call stood when the flag became set.
_handle_signal ==
    /\ kill_now' = SetFlag(kill_now)
    /\ dl' = IF kill_now THEN dl ELSE [dl EXCEPT !.sig = PollsAhead(dl)]
    /\ UNCHANGED <<now, fs, meta, prev, ncalls, pvars>>

(* ------------------------------- clock -------------------------------- *)
\* Time passes between two download_file calls.
Tick ==
    /\ dl.pc = "idle"
    /\ ncalls < MaxCalls
    /\ \E d \in {CACHE_TTL_DAYS - 1, CACHE_TTL_DAYS} :
          /\ now + d <= MaxNow
          /\ now' = now + d
    /\ UNCHANGED <<kill_now, fs, meta, dl, prev, ncalls, pvars>>

(* ------------------- the driver of download_file ---------------------- *)
\* The names and urls the driver uses: one name KNOWN_CHECKSUMS knows and
\* one it does not, two urls.
DriverNames == {"wine-mono-8.0.0-x86.msi", mt5_installer}
DriverUrls == {mono_url, mt5_download_url}

\* The expected_checksum arguments the driver passes: none, or (for a name
\* KNOWN_CHECKSUMS has no entry for) the digest of the published body.
DriverChecksums(u, n) ==
    IF n \in DOMAIN KNOWN_CHECKSUMS THEN {NoChecksum}
    ELSE {NoChecksum, _calculate_checksum(Body(u, 1))}

CallDownload ==
    /\ dl.pc = "idle"
    /\ ncalls < MaxCalls
    /\ \E u \in DriverUrls, n \in DriverNames :
          \E e \in DriverChecksums(u, n) :
             dl' = NewFrame(u, n, e)
    /\ ncalls' = ncalls + 1
    /\ UNCHANGED <<kill_now, now, fs, meta, prev, pvars>>

\* The caller takes the result.
DlReturn ==
    /\ dl.pc = "ret"
    /\ prev' = [how |-> dl.how, url |-> dl.url, name |-> dl.name,
                linked |-> dl.pre.fs.linked[dl.name]]
    /\ dl' = IdleFrame
    /\ UNCHANGED <<kill_now, now, fs, meta, ncalls, pvars>>

\* The caller removes the file it fetched (as the install steps do).
RemoveDest ==
    /\ dl.pc = "idle"
    /\ ncalls < MaxCalls
    /\ \E n \in DriverNames :
          /\ fs.tmp[n].ex
          /\ fs' = FsUnlink(fs, n)
    /\ UNCHANGED <<kill_now, now, meta, dl, prev, ncalls, pvars>>

\* The sidecar of a url is damaged on disk (the scenario of the end-to-end
\* test: "corrupting the cached file's sidecar metadata").
CorruptMeta ==
    /\ dl.pc = "idle"
    /\ ncalls < MaxCalls
    /\ \E u \in DriverUrls :
          /\ meta[u].st = "ok"
          /\ meta' = [meta EXCEPT ![u].st = "corrupt"]
    /\ UNCHANGED <<kill_now, now, fs, dl, prev, ncalls, pvars>>

Next ==
    \/ CallDownload
    \/ DlBegin
    \/ DlPoll
    \/ DlWrite
    \/ DlFinish
    \/ DlReturn
    \/ RemoveDest
    \/ CorruptMeta
    \/ _handle_signal
    \/ Tick

Spec == Init /\ [][Next]_vars

(* ============================ the pipeline ============================ *)
\* install_mt5's timeout, in turns of its wait loop (one second each):
\* the model's stand-in for timeout = 300
InstallPolls == 3

required_packages == <<"MetaTrader5==5.0.36", "mt5linux", "pyxdg">>

\* the steps list of run()
steps ==
    <<"install_mono", "install_mt5", "install_python_wine",
      "install_python_packages", "start_mt5", "start_mt5_server">>

\* time.sleep(5) of start_mt5_server, in seconds
SETTLE_DELAY == 5

\* the exit codes of an external command: success or failure
ExitCodes == {0, 1}

dvars == <<now, meta, prev, ncalls>>

\* the step returns to the loop of run() (its locals are gone)
StepReturns(r) == [r EXCEPT !.pc = "loop", !.i = @ + 1, !.elapsed = 0, !.pkg = 1]

\* (mutant) a run() without its finally clause
FinallySkipped(r) == [r EXCEPT !.pc = "done"]

\* Lines 451-452: finally: self.cleanup()
Finally(r) == [r EXCEPT !.pc = "cleanup", !.k = 1]

\* an exception leaves the step and the loop for run()'s except clause,
\* which logs and re-raises after the finally clause has run cleanup()
StepRaises(r) ==
    Finally([r EXCEPT !.exc = TRUE, !.elapsed = 0, !.pkg = 1])

\* run_command's test of the flag (line 205): nothing is started when set
CommandRuns(flag) == ~flag

\* (mutant) a run_command that raises on every non-zero exit
RaisesAlways(check, rc) == rc # 0

\* Lines 220-234: subprocess.run(check=check) raises CalledProcessError on
\* a non-zero exit when check is set, and run_command re-raises it
Raises(check, rc) == check /\ rc # 0

\* one more external process (subprocess.run or Popen) started by the step
\* (st.flagged is history: a process was started with the flag set)
CountCommand(st) == [st EXCEPT !.cmds = @ + 1, !.flagged = @ \/ kill_now]

\* the step runs an installer on the file n (st.ran is history: the digest
\* of the content the installer was run on)
RanOn(st, n) == [st EXCEPT !.ran = _calculate_checksum(fs.tmp[n].data)]

\* the step takes the result of its download_file call
TakeDownload(st) == [st EXCEPT !.net = @ + dl.net, !.how = dl.how]

\* (mutant) a loop that does not test the flag before a step
LoopFlagIgnored(flag) == FALSE

\* Line 436: if self.killer.kill_now, before each step
LoopFlagSet(flag) == flag

\* the "already done" precondition of a step (the marker path, the
\* executable, a version probe that succeeds)
Precondition(step, h) ==
    CASE step = "install_mono" -> h.mono
      [] step = "install_mt5" -> h.mt5
      [] step = "install_python_wine" -> h.python
      [] OTHER -> FALSE

\* Lines 435-439: the loop of run()
RunLoop ==
    /\ run.pc = "loop"
    /\ IF run.i > Len(steps)
       THEN /\ run' = [run EXCEPT !.pc = "after_loop"]
            /\ UNCHANGED <<started, stat>>
       ELSE IF LoopFlagSet(kill_now)
       THEN /\ run' = [run EXCEPT !.pc = "after_loop", !.observed = TRUE]
            /\ UNCHANGED <<started, stat>>
       ELSE /\ run' = [run EXCEPT !.pc = steps[run.i]]
            /\ started' = Append(started, steps[run.i])
            /\ stat' = [NoStat EXCEPT !.held = Precondition(steps[run.i], host),
                                      !.host0 = host]
    /\ UNCHANGED <<kill_now, fs, dl, host, procs, inst, dvars>>

\* (mutant) install_mono without its test of the marker path
MonoTestSkipped(h) == FALSE

\* Line 244: mono_path.exists()
mono_path_exists(h) == h.mono

\* Line 266 (and 376): mt5_exe.exists()
mt5_exe_exists(h) == h.mt5

\* Lines 239-251: install_mono up to its download_file call
install_mono ==
    /\ run.pc = "install_mono"
    /\ IF kill_now \/ mono_path_exists(host)
       THEN run' = StepReturns(run) /\ UNCHANGED dl
       ELSE /\ run' = [run EXCEPT !.pc = "mono_downloaded"]
            /\ dl' = NewFrame(mono_url, mono_installer, NoChecksum)
    /\ UNCHANGED <<kill_now, fs, host, procs, inst, started, stat, dvars>>

\* (mutant) a step that does not look at download_file's result
DownloadAssumed(frame) == TRUE

\* Lines 251, 282, 331: if self.download_file(...)
DownloadSucceeded(frame) == frame.result

\* Lines 251-257: the msiexec command (check=False) and the unlink
install_mono_run ==
    /\ run.pc = "mono_downloaded"
    /\ dl.pc = "ret"
    /\ IF DownloadSucceeded(dl)
       THEN \E rc \in ExitCodes :
               /\ stat' = IF CommandRuns(kill_now)
                          THEN RanOn(CountCommand(TakeDownload(stat)),
                                     mono_installer)
                          ELSE TakeDownload(stat)
               /\ host' = IF CommandRuns(kill_now) /\ rc = 0
                          THEN [host EXCEPT !.mono = TRUE] ELSE host
               /\ fs' = FsUnlink(fs, mono_installer)
       ELSE /\ stat' = TakeDownload(stat)
            /\ UNCHANGED <<host, fs>>
    /\ dl' = IdleFrame
    /\ run' = StepReturns(run)
    /\ UNCHANGED <<kill_now, procs, inst, started, dvars>>

\* Lines 261-270: install_mt5's tests
install_mt5 ==
    /\ run.pc = "install_mt5"
    /\ run' = IF kill_now \/ mt5_exe_exists(host) THEN StepReturns(run)
              ELSE [run EXCEPT !.pc = "mt5_reg"]
    /\ UNCHANGED <<kill_now, fs, dl, host, procs, inst, started, stat, dvars>>

\* Lines 273-282: the registry command (check=True: a non-zero exit raises
\* CalledProcessError out of the step), then the download_file call
install_mt5_reg ==
    /\ run.pc = "mt5_reg"
    /\ \E rc \in ExitCodes :
          IF CommandRuns(kill_now) /\ Raises(TRUE, rc)
          THEN /\ run' = StepRaises(run)
               /\ stat' = CountCommand(stat)
               /\ UNCHANGED dl
          ELSE /\ run' = [run EXCEPT !.pc = "mt5_downloaded"]
               /\ stat' = IF CommandRuns(kill_now) THEN CountCommand(stat) ELSE stat
               /\ dl' = NewFrame(mt5_download_url, mt5_installer, NoChecksum)
    /\ UNCHANGED <<kill_now, fs, host, procs, inst, started, dvars>>

\* Lines 282-292: the installer is started with subprocess.Popen (no test
\* of the flag, and the process is not appended to self.processes)
install_mt5_spawn ==
    /\ run.pc = "mt5_downloaded"
    /\ dl.pc = "ret"
    /\ IF DownloadSucceeded(dl)
       THEN /\ inst' = [state |-> "running", terms |-> 0]
            /\ stat' = RanOn(CountCommand(TakeDownload(stat)), mt5_installer)
            /\ run' = [run EXCEPT !.pc = "mt5_wait", !.elapsed = 0]
       ELSE /\ stat' = TakeDownload(stat)
            /\ run' = StepReturns(run)
            /\ UNCHANGED inst
    /\ dl' = IdleFrame
    /\ UNCHANGED <<kill_now, fs, host, procs, started, dvars>>

\* process.terminate(): SIGTERM is sent to a process still running
Terminate(p) ==
    IF p.state = "running" THEN [p EXCEPT !.terms = @ + 1] ELSE p

\* Lines 294-302: one turn of the wait loop
install_mt5_wait ==
    /\ run.pc = "mt5_wait"
    /\ IF run.elapsed >= InstallPolls
       THEN /\ run' = [run EXCEPT !.pc = "mt5_after"]
            /\ UNCHANGED inst
       ELSE IF kill_now
       THEN /\ inst' = Terminate(inst)
            /\ run' = StepReturns(run)
       ELSE IF inst.state # "running"
       THEN /\ run' = [run EXCEPT !.pc = "mt5_after"]
            /\ UNCHANGED inst
       ELSE /\ run' = [run EXCEPT !.elapsed = @ + 1]
            /\ UNCHANGED inst
    /\ UNCHANGED <<kill_now, fs, dl, host, procs, started, stat, dvars>>

\* Lines 304-313: after the loop
install_mt5_after ==
    /\ run.pc = "mt5_after"
    /\ inst' = Terminate(inst)
    /\ fs' = FsUnlink(fs, mt5_installer)
    /\ run' = StepReturns(run)
    /\ UNCHANGED <<kill_now, dl, host, procs, started, stat, dvars>>

\* The installer process exits, having installed the terminal or not.
\* (stat.host0 is history: the host as it is but for the running step's
\* own commands, so the installer's effect is entered there too.)
InstallerExits ==
    /\ inst.state = "running"
    /\ inst' = [inst EXCEPT !.state = "exited"]
    /\ \E ok \in BOOLEAN :
          /\ host' = [host EXCEPT !.mt5 = @ \/ ok]
          /\ stat' = [stat EXCEPT !.host0.mt5 = @ \/ ok]
    /\ UNCHANGED <<kill_now, fs, dl, run, procs, started, dvars>>

\* Lines 317-318: install_python_wine's test of the flag
install_python_wine ==
    /\ run.pc = "install_python_wine"
    /\ run' = IF kill_now THEN StepReturns(run)
              ELSE [run EXCEPT !.pc = "python_probe"]
    /\ UNCHANGED <<kill_now, fs, dl, host, procs, inst, started, stat, dvars>>

\* Lines 320-331: the version probe "wine python --version" (check=False),
\* which exits 0 when Python is installed; otherwise the download_file call
install_python_probe ==
    /\ run.pc = "python_probe"
    /\ IF CommandRuns(kill_now) /\ host.python
       THEN /\ run' = StepReturns(run)
            /\ UNCHANGED dl
       ELSE /\ run' = [run EXCEPT !.pc = "python_downloaded"]
            /\ dl' = NewFrame(python_url, python_installer, NoChecksum)
    /\ stat' = IF CommandRuns(kill_now) THEN CountCommand(stat) ELSE stat
    /\ UNCHANGED <<kill_now, fs, host, procs, inst, started, dvars>>

\* Lines 331-336: the Python installer (check=False) and the unlink
install_python_run ==
    /\ run.pc = "python_downloaded"
    /\ dl.pc = "ret"
    /\ IF DownloadSucceeded(dl)
       THEN \E rc \in ExitCodes :
               /\ stat' = IF CommandRuns(kill_now)
                          THEN RanOn(CountCommand(TakeDownload(stat)),
                                     python_installer)
                          ELSE TakeDownload(stat)
               /\ host' = IF CommandRuns(kill_now) /\ rc = 0
                          THEN [host EXCEPT !.python = TRUE] ELSE host
               /\ fs' = FsUnlink(fs, python_installer)
               /\ run' = [run EXCEPT !.pc = "python_pip"]
       ELSE /\ stat' = TakeDownload(stat)
            /\ run' = StepReturns(run)
            /\ UNCHANGED <<host, fs>>
    /\ dl' = IdleFrame
    /\ UNCHANGED <<kill_now, procs, inst, started, dvars>>

\* Lines 338-342: pip is upgraded (check=False)
install_python_pip ==
    /\ run.pc = "python_pip"
    /\ stat' = IF CommandRuns(kill_now) THEN CountCommand(stat) ELSE stat
    /\ run' = StepReturns(run)
    /\ UNCHANGED <<kill_now, fs, dl, host, procs, inst, started, dvars>>

\* Lines 346-349: install_python_packages' test of the flag
install_python_packages ==
    /\ run.pc = "install_python_packages"
    /\ run' = IF kill_now THEN StepReturns(run)
              ELSE [run EXCEPT !.pc = "packages_loop", !.pkg = 1]
    /\ UNCHANGED <<kill_now, fs, dl, host, procs, inst, started, stat, dvars>>

\* Lines 351-353: the loop over the packages
packages_loop ==
    /\ run.pc = "packages_loop"
    /\ run' = IF run.pkg > Len(required_packages) \/ kill_now
              THEN StepReturns(run)
              ELSE [run EXCEPT !.pc = "packages_wine"]
    /\ UNCHANGED <<kill_now, fs, dl, host, procs, inst, started, stat, dvars>>

\* Lines 356-360: pip install in Wine (check=False).  (run.soft is history:
\* a pip install of this run has exited non-zero.)
packages_wine ==
    /\ run.pc = "packages_wine"
    /\ \E rc \in ExitCodes :
          IF CommandRuns(kill_now)
          THEN /\ stat' = CountCommand(stat)
               /\ run' = IF Raises(FALSE, rc) THEN StepRaises(run)
                         ELSE [run EXCEPT !.pc = "packages_linux",
                                          !.soft = @ \/ rc # 0]
          ELSE /\ run' = [run EXCEPT !.pc = "packages_linux"]
               /\ UNCHANGED stat
    /\ UNCHANGED <<kill_now, fs, dl, host, procs, inst, started, dvars>>

\* Lines 363-367: pip3 install on the host (check=False)
packages_linux ==
    /\ run.pc = "packages_linux"
    /\ \E rc \in ExitCodes :
          IF CommandRuns(kill_now)
          THEN /\ stat' = CountCommand(stat)
               /\ run' = IF Raises(FALSE, rc) THEN StepRaises(run)
                         ELSE [run EXCEPT !.pc = "packages_loop", !.pkg = @ + 1,
                                          !.soft = @ \/ rc # 0]
          ELSE /\ run' = [run EXCEPT !.pc = "packages_loop", !.pkg = @ + 1]
               /\ UNCHANGED stat
    /\ UNCHANGED <<kill_now, fs, dl, host, procs, inst, started, dvars>>

\* a background process run_command has started and appended
NewProcess(cmd) == [cmd |-> cmd, state |-> "running", terms |-> 0, kills |-> 0]

\* Lines 371-380: start_mt5's tests
start_mt5 ==
    /\ run.pc = "start_mt5"
    /\ run' = IF kill_now \/ ~mt5_exe_exists(host) THEN StepReturns(run)
              ELSE [run EXCEPT !.pc = "start_mt5_spawn"]
    /\ UNCHANGED <<kill_now, fs, dl, host, procs, inst, started, stat, dvars>>

\* Line 378: run_command(background=True)
start_mt5_spawn ==
    /\ run.pc = "start_mt5_spawn"
    /\ IF CommandRuns(kill_now)
       THEN /\ procs' = Append(procs, NewProcess("terminal64.exe"))
            /\ stat' = CountCommand(stat)
       ELSE UNCHANGED <<procs, stat>>
    /\ run' = StepReturns(run)
    /\ UNCHANGED <<kill_now, fs, dl, host, inst, started, dvars>>

\* Lines 384-387: start_mt5_server's test of the flag
start_mt5_server ==
    /\ run.pc = "start_mt5_server"
    /\ run' = IF kill_now THEN StepReturns(run)
              ELSE [run EXCEPT !.pc = "server_spawn"]
    /\ UNCHANGED <<kill_now, fs, dl, host, procs, inst, started, stat, dvars>>

\* Lines 389-394: run_command(background=True)
server_spawn ==
    /\ run.pc = "server_spawn"
    /\ IF CommandRuns(kill_now)
       THEN /\ procs' = Append(procs, NewProcess("mt5linux"))
            /\ stat' = CountCommand(stat)
       ELSE UNCHANGED <<procs, stat>>
    /\ run' = [run EXCEPT !.pc = "server_settle", !.elapsed = 0]
    /\ UNCHANGED <<kill_now, fs, dl, host, inst, started, dvars>>

\* Line 397: time.sleep(5), one second at a time.  The flag is not read.
\* (run.unseen is history: a second was slept that began with the flag set
\* and not yet read.  The sleeps of install_mt5's wait loop and of the idle
\* loop last one second and follow a read of the flag.)
server_settle ==
    /\ run.pc = "server_settle"
    /\ run' = IF run.elapsed < SETTLE_DELAY
              THEN [run EXCEPT !.elapsed = @ + 1,
                               !.unseen = @ \/ kill_now]
              ELSE [run EXCEPT !.pc = "server_check"]
    /\ UNCHANGED <<kill_now, fs, dl, host, procs, inst, started, stat, dvars>>

\* Lines 398-403: the port check "ss -tuln" (check=False), whose output
\* shows the port or not; its outcome is only logged (run.port is history)
server_check ==
    /\ run.pc = "server_check"
    /\ \E rc \in ExitCodes, seen \in BOOLEAN :
          IF CommandRuns(kill_now)
          THEN /\ stat' = CountCommand(stat)
               /\ run' = IF Raises(FALSE, rc) THEN StepRaises(run)
                         ELSE StepReturns(
                                [run EXCEPT !.port = IF rc = 0 /\ seen
                                                     THEN "confirmed"
                                                     ELSE "unconfirmed"])
          ELSE /\ run' = StepReturns([run EXCEPT !.port = "unconfirmed"])
               /\ UNCHANGED stat
    /\ UNCHANGED <<kill_now, fs, dl, host, procs, inst, started, dvars>>

\* Line 441: if not self.killer.kill_now
after_loop ==
    /\ run.pc = "after_loop"
    /\ run' = IF kill_now THEN Finally(run)
              ELSE [run EXCEPT !.pc = "idle"]
    /\ UNCHANGED <<kill_now, fs, dl, host, procs, inst, started, stat, dvars>>

\* (mutant) an idle loop that never looks at the flag
IdleFlagIgnored(flag) == FALSE

\* (mutant) an idle loop that ends at once
IdleFlagAssumed(flag) == TRUE

\* Line 445: while not self.killer.kill_now
IdleFlagSet(flag) == flag

\* Lines 445-446: while not self.killer.kill_now: time.sleep(1)
idle ==
    /\ run.pc = "idle"
    /\ run' = IF IdleFlagSet(kill_now) THEN Finally(run) ELSE run
    /\ UNCHANGED <<kill_now, fs, dl, host, procs, inst, started, stat, dvars>>

\* A tracked background process exits (by itself, or on SIGTERM).
ProcessExits ==
    /\ \E j \in 1..Len(procs) :
          /\ procs[j].state = "running"
          /\ procs' = [procs EXCEPT ![j].state = "exited"]
    /\ UNCHANGED <<kill_now, fs, dl, run, host, inst, started, stat, dvars>>

\* Lines 408-410: the next tracked process; terminate() when still running
cleanup ==
    /\ run.pc = "cleanup"
    /\ IF run.k > Len(procs)
       THEN /\ run' = [run EXCEPT !.pc = "done", !.cleanups = @ + 1]
            /\ UNCHANGED procs
       ELSE IF procs[run.k].state = "running"
       THEN /\ procs' = [procs EXCEPT ![run.k] = Terminate(@)]
            /\ run' = [run EXCEPT !.pc = "cleanup_wait"]
       ELSE /\ run' = [run EXCEPT !.k = @ + 1]
            /\ UNCHANGED procs
    /\ UNCHANGED <<kill_now, fs, dl, host, inst, started, stat, dvars>>

\* Line 412: process.wait(timeout=5) returns, the process has exited
cleanup_waited ==
    /\ run.pc = "cleanup_wait"
    /\ procs[run.k].state # "running"
    /\ run' = [run EXCEPT !.pc = "cleanup", !.k = @ + 1]
    /\ UNCHANGED <<kill_now, fs, dl, host, procs, inst, started, stat, dvars>>

\* (mutant) a cleanup that gives up on a process that outlives the wait
KillForgotten(p) == p

\* Line 414: process.kill(); SIGKILL cannot be caught, the process is dead
Kill(p) == [p EXCEPT !.state = "killed", !.kills = @ + 1]

\* Lines 413-414: TimeoutExpired, the process runs on after 5 seconds
cleanup_timeout ==
    /\ run.pc = "cleanup_wait"
    /\ procs[run.k].state = "running"
    /\ procs' = [procs EXCEPT ![run.k] = Kill(@)]
    /\ run' = [run EXCEPT !.pc = "cleanup", !.k = @ + 1]
    /\ UNCHANGED <<kill_now, fs, dl, host, inst, started, stat, dvars>>

\* installer.run() on a host where any of the three components may be
\* installed already
InitRun ==
    /\ InitInstaller
    /\ run = [NoRun EXCEPT !.pc = "loop"]
    /\ host \in [mono : BOOLEAN, mt5 : BOOLEAN, python : BOOLEAN]

NextRun ==
    \/ RunLoop
    \/ install_mono
    \/ install_mono_run
    \/ install_mt5
    \/ install_mt5_reg
    \/ install_mt5_spawn
    \/ install_mt5_wait
    \/ install_mt5_after
    \/ InstallerExits
    \/ install_python_wine
    \/ install_python_probe
    \/ install_python_run
    \/ install_python_pip
    \/ install_python_packages
    \/ packages_loop
    \/ packages_wine
    \/ packages_linux
    \/ start_mt5
    \/ start_mt5_spawn
    \/ start_mt5_server
    \/ server_spawn
    \/ server_settle
    \/ server_check
    \/ after_loop
    \/ idle
    \/ ProcessExits
    \/ cleanup
    \/ cleanup_waited
    \/ cleanup_timeout
    \/ DlBegin
    \/ DlPoll
    \/ DlWrite
    \/ DlFinish
    \/ _handle_signal

SpecRun == InitRun /\ [][NextRun]_vars

\* The steps of the one thread that executes run(): every action but the
\* signal and the exits of the child processes.  No statement of run()
\* blocks for ever once the commands and network calls it waits for return,
\* so the thread always takes its next step.
MainThread ==
    \/ RunLoop
    \/ install_mono
    \/ install_mono_run
    \/ install_mt5
    \/ install_mt5_reg
    \/ install_mt5_spawn
    \/ install_mt5_wait
    \/ install_mt5_after
    \/ install_python_wine
    \/ install_python_probe
    \/ install_python_run
    \/ install_python_pip
    \/ install_python_packages
    \/ packages_loop
    \/ packages_wine
    \/ packages_linux
    \/ start_mt5
    \/ start_mt5_spawn
    \/ start_mt5_server
    \/ server_spawn
    \/ server_settle
    \/ server_check
    \/ after_loop
    \/ idle
    \/ cleanup
    \/ cleanup_waited
    \/ cleanup_timeout
    \/ DlBegin
    \/ DlPoll
    \/ DlWrite
    \/ DlFinish

SpecRunLive == SpecRun /\ WF_vars(MainThread)

(* ---------------------- download_file: the claims -------------------- *)
\* the expected hash download_file resolves for the running call
DlExpected == ResolveExpected(dl.expected, dl.name)

\* the running call has returned
DlReturned == dl.pc = "ret"

\* the running call received the whole response body
DlReceived == dl.net = 1 /\ Len(dl.body) > 0 /\ dl.written = Len(dl.body)

\* no file was added to the cache directory by the running call
NoCacheFileAdded ==
    \A n \in DestNames : fs.cache[n].ex => dl.pre.fs.cache[n].ex

\* the age of the url's metadata record when the running call was made
DlAgeAtCall == dl.pre.now - dl.pre.meta[dl.url].timestamp

\* the running call follows a call for the same url and file name
SameAsPrev == prev.url = dl.url /\ prev.name = dl.name

\* C1: when the expected hash is known (explicit parameter, or the table
\* entry of the destination file name) and the received content hashes to
\* something else, download_file returns failure, the destination file is
\* absent, no file was added to the cache directory and the url's metadata
\* record is as it was.
C1_TamperedRejected ==
    (/\ DlReturned /\ DlReceived
     /\ DlExpected # NoChecksum
     /\ _calculate_checksum(dl.body) # DlExpected)
    => /\ dl.result = FALSE
       /\ ~fs.tmp[dl.name].ex
       /\ NoCacheFileAdded
       /\ meta = dl.pre.meta

C1_Witness ==
    /\ DlReturned /\ DlReceived
    /\ DlExpected # NoChecksum
    /\ _calculate_checksum(dl.body) # DlExpected
    /\ dl.how = "mismatch"

\* C2: a call that follows a successful download of the same url and file
\* name, made with the flag unset while the recorded timestamp is younger
\* than the TTL, returns success with the cached content at the
\* destination and without any network request.
C2_FreshCacheNoNetwork ==
    (/\ DlReturned /\ prev.how = "downloaded" /\ SameAsPrev
     /\ ~dl.pre.kill
     /\ dl.pre.meta[dl.url].st = "ok"
     /\ DlAgeAtCall < CACHE_TTL_DAYS)
    => /\ dl.result = TRUE
       /\ dl.net = 0
       /\ fs.tmp[dl.name] = dl.pre.fs.cache[dl.name]
       /\ fs.tmp[dl.name].ex

C2_Witness ==
    /\ DlReturned /\ prev.how = "downloaded" /\ SameAsPrev
    /\ dl.pre.meta[dl.url].st = "ok"
    /\ DlAgeAtCall = CACHE_TTL_DAYS - 1
    /\ dl.how = "hit" /\ dl.net = 0

\* C3 (as claimed): a call made with the flag unset for a url whose cache
\* entry (cached file and metadata record) is older than the TTL issues a
\* network request and, when the body is received and verifies, returns
\* success with the cache entry overwritten: the cached file holds the
\* new content, the record the new timestamp and hash.
C3_ExpiredOverwritten ==
    (/\ DlReturned /\ ~dl.pre.kill
     /\ dl.pre.fs.cache[dl.name].ex
     /\ dl.pre.meta[dl.url].st = "ok"
     /\ DlAgeAtCall >= CACHE_TTL_DAYS)
    => /\ dl.net = 1
       /\ (DlReceived /\ _verify_checksum(dl.body, DlExpected))
            => /\ dl.result = TRUE
               /\ fs.cache[dl.name] = [ex |-> TRUE, data |-> dl.body]
               /\ meta[dl.url] = [st |-> "ok", timestamp |-> now,
                                   checksum |-> _calculate_checksum(dl.body)]

\* C4: a call made with the flag already set returns failure without a
\* network request and leaves the destination, the cache directory and the
\* metadata records as they were.
C4_CancelledAtEntry ==
    (DlReturned /\ dl.pre.kill)
    => /\ dl.result = FALSE
       /\ dl.net = 0
       /\ fs = dl.pre.fs
       /\ meta = dl.pre.meta

C4_Witness ==
    /\ DlReturned /\ dl.pre.kill
    /\ dl.how = "cancelled"
    /\ dl.pre.fs.cache[dl.name].ex
    /\ dl.pre.meta[dl.url].st = "ok"

\* the flag became set while the running call was streaming the body
SignalledWhileStreaming == dl.sig >= 0

\* what an interrupted call leaves: no verification, no cache file added,
\* the records untouched, the chunks written so far at the destination
InterruptedOutcome ==
    /\ dl.result = FALSE
    /\ ~dl.verified
    /\ NoCacheFileAdded
    /\ meta = dl.pre.meta
    /\ fs.tmp[dl.name] = [ex |-> TRUE, data |-> SubSeq(dl.body, 1, dl.written)]

\* C5 (as claimed): once the flag is set during the streaming, at most
\* the chunk being handled is written and the call returns failure
\* without verification and without a cache file or record added, the
\* partial file left in place.
C5_InterruptedAlways ==
    /\ dl.late <= 1
    /\ (DlReturned /\ SignalledWhileStreaming) => InterruptedOutcome

\* C5 (amended): at most the chunk being handled is written after the
\* flag is set; and when a chunk is still to be polled at that point, the
\* call returns failure without verification and without a cache file or
\* record added, the partial file left in place.
C5_InterruptedBeforeLastPoll ==
    /\ dl.late <= 1
    /\ (DlReturned /\ dl.sig >= 1) => InterruptedOutcome

C5_Witness ==
    /\ DlReturned /\ dl.sig >= 1
    /\ dl.late = 1
    /\ dl.how = "interrupted"
    /\ dl.written = 1

\* C8 (as claimed): with the url's metadata record present but unparsable,
\* a call made with the flag unset does not use the cache, issues a
\* network request and returns success when the body is received and
\* verifies.
C8_CorruptMetaRedownloads ==
    (/\ DlReturned /\ ~dl.pre.kill
     /\ dl.pre.meta[dl.url].st = "corrupt")
    => /\ dl.how # "hit"
       /\ dl.net = 1
       /\ (DlReceived /\ _verify_checksum(dl.body, DlExpected))
            => dl.result = TRUE

\* C9 (as claimed): after a cache hit the cached file is gone from the
\* cache directory.
C9_HitConsumes ==
    (DlReturned /\ dl.how = "hit") => ~fs.cache[dl.name].ex

\* C9 (amended): a cache hit whose destination is not already a hard link
\* of the cached file moves the cached file to the destination; the next
\* call for the same url and file name, made with the flag unset and the
\* record still readable, finds no cached file and issues a network
\* request, and when it succeeds the cache holds the new file and record.
C9_HitConsumesUnlinked ==
    /\ (DlReturned /\ dl.how = "hit" /\ ~dl.pre.fs.linked[dl.name])
        => /\ ~fs.cache[dl.name].ex
           /\ fs.tmp[dl.name] = dl.pre.fs.cache[dl.name]
    /\ (/\ dl.pc \notin {"idle", "begin"} /\ prev.how = "hit" /\ ~prev.linked
         /\ SameAsPrev)
        => ~dl.pre.fs.cache[dl.name].ex
    /\ (/\ DlReturned /\ prev.how = "hit" /\ ~prev.linked /\ SameAsPrev
         /\ ~dl.pre.kill /\ dl.pre.meta[dl.url].st = "ok")
        => /\ dl.net = 1
           /\ dl.how # "hit"
           /\ dl.result = TRUE
                => /\ fs.cache[dl.name] = [ex |-> TRUE, data |-> dl.body]
                   /\ meta[dl.url].st = "ok"
                   /\ meta[dl.url].timestamp = now

C9_Witness ==
    /\ DlReturned /\ prev.how = "hit" /\ ~prev.linked /\ SameAsPrev
    /\ dl.how = "downloaded"
    /\ fs.cache[dl.name].ex

(* ------------------------- the pipeline: claims ----------------------- *)
\* the step run() started last
CurrentStep == IF started = <<>> THEN "none" ELSE started[Len(started)]

\* the running step has started no external command, made no network
\* request and left the host as it was
StepDidNothing ==
    /\ stat.cmds = 0
    /\ stat.net = 0 /\ dl.net = 0
    /\ host = stat.host0

\* C6 (as claimed): each of the three install steps, started on a host
\* where its precondition holds, starts no external command, makes no
\* download and leaves the host unchanged.
C6_HeldStepDoesNothing ==
    (/\ CurrentStep \in {"install_mono", "install_mt5", "install_python_wine"}
     /\ stat.held)
    => StepDidNothing

\* C6 (amended): install_mono and install_mt5, started on a host where the
\* precondition holds, start no external command, make no download and
\* leave the host unchanged; install_python_wine, whose precondition is the
\* version probe, starts at most that one command, makes no network request
\* and leaves the host unchanged.
C6_HeldStepOnlyProbes ==
    /\ (CurrentStep \in {"install_mono", "install_mt5"} /\ stat.held)
        => (StepDidNothing /\ dl.pc = "idle")
    /\ (CurrentStep = "install_python_wine" /\ stat.held)
        => /\ stat.cmds <= 1
           /\ stat.net = 0 /\ dl.net = 0
           /\ host = stat.host0

C6_Witness ==
    /\ run.pc = "loop"
    /\ CurrentStep = "install_python_wine" /\ stat.held
    /\ stat.cmds = 1
    /\ stat.host0.mono /\ stat.host0.mt5

\* what cleanup() has done to the tracked processes
CleanupInvariant ==
    /\ \A j \in 1..Len(procs) :
          /\ procs[j].terms <= 1
          /\ procs[j].kills <= 1
          /\ (procs[j].kills = 1) = (procs[j].state = "killed")
          /\ procs[j].state = "killed" => procs[j].terms = 1
    /\ run.pc \in {"cleanup", "cleanup_wait"}
        => \A j \in 1..Len(procs) : j < run.k => procs[j].state # "running"
    /\ run.pc = "done"
        => \A j \in 1..Len(procs) : procs[j].state # "running"

\* a signal is sent to a process only while it runs: SIGTERM by cleanup()
\* on its turn, SIGKILL only after SIGTERM, in the wait
CleanupStep ==
    \A j \in 1..Len(procs) :
       /\ procs'[j].terms # procs[j].terms
            => /\ procs[j].state = "running"
               /\ run.pc = "cleanup" /\ run.k = j
       /\ procs'[j].kills # procs[j].kills
            => /\ procs[j].state = "running"
               /\ procs[j].terms = 1
               /\ run.pc = "cleanup_wait" /\ run.k = j

\* C7: cleanup() sends SIGTERM to every tracked process still running;
\* a process that exits during the wait is never sent SIGKILL; one that
\* still runs when the wait expires is sent SIGKILL exactly once; when
\* cleanup() has returned no tracked process runs.
C7_CleanupTerminatesAll == [](CleanupInvariant) /\ [][CleanupStep]_vars

C7_Witness ==
    /\ run.pc = "done"
    /\ Len(procs) = 2
    /\ procs[1].state = "exited" /\ procs[1].terms = 1 /\ procs[1].kills = 0
    /\ procs[2].state = "killed" /\ procs[2].kills = 1

\* the steps started so far are the first steps of the list, in its order
StartedInOrder ==
    /\ Len(started) <= Len(steps)
    /\ \A j \in 1..Len(started) : started[j] = steps[j]

\* a step is started from the loop only (the one before has returned and
\* no download_file call is running), next in the list, the flag unset and
\* never seen set by the loop
StepStart ==
    started' # started
    => /\ run.pc = "loop" /\ dl.pc = "idle"
       /\ ~kill_now /\ ~run.observed
       /\ Len(started) < Len(steps)
       /\ started' = Append(started, steps[Len(started) + 1])

\* C10: the six steps start in the order of the list, each after the one
\* before has returned; once the loop has seen the flag set before a step,
\* no step is started any more and run() goes on to cleanup().
C10_StepsInOrder ==
    /\ [](StartedInOrder)
    /\ [](run.observed => run.pc \in {"after_loop", "cleanup", "cleanup_wait", "done"})
    /\ [][StepStart]_vars

C10_Witness ==
    /\ run.observed
    /\ run.pc = "done"
    /\ Len(started) = 3

\* C11: on every way out of run() (the idle loop cancelled, the steps
\* cancelled, an exception out of a step) cleanup() has been executed
\* exactly once when run() finishes, and never more than once.
C11_CleanupExactlyOnce ==
    /\ run.cleanups <= 1
    /\ (run.pc = "done") = (run.cleanups = 1)

C11_Witness ==
    /\ run.pc = "done"
    /\ run.exc /\ ~kill_now
    /\ run.cleanups = 1

\* a step of the program on the flag
FlagStep ==
    /\ kill_now => kill_now'
    /\ _handle_signal => kill_now'
    /\ (kill_now /\ _handle_signal) => UNCHANGED vars

\* C12: the flag starts unset, a delivered signal sets it, no step clears
\* it, and a signal delivered when it is set changes nothing.
C12_FlagMonotonic == ~kill_now /\ [][FlagStep]_vars

C12_Witness ==
    /\ kill_now
    /\ run.observed
    /\ run.pc = "after_loop"
    /\ Len(started) = 2

\* C13 (as claimed): no external command or child process is started in a
\* state where the flag is set.
C13_NothingStartedAfterFlag == ~stat.flagged

\* the step takes a failure result of download_file
TakesFailure ==
    /\ dl.pc = "ret" /\ ~dl.result
    /\ dl'.pc = "idle"

\* C14: download_file never raises; a failure inside it (request failed,
\* metadata unparsable, link failed, checksum rejected, cancelled) is a
\* False result, on which the step starts no command, changes nothing on
\* the host and returns to the loop of run(), which goes on.
C14_DownloadNeverRaises ==
    /\ [](dl.pc # "raised")
    /\ [][TakesFailure =>
            /\ run'.pc = "loop" /\ run'.i = run.i + 1
            /\ ~run'.exc
            /\ stat'.cmds = stat.cmds
            /\ host' = host /\ inst' = inst /\ procs' = procs]_vars

C14_Witness ==
    /\ CurrentStep = "install_mono"
    /\ run.pc = "loop" /\ ~run.exc
    /\ stat.how = "error" /\ stat.net = 1
    /\ stat.cmds = 0
    /\ ~kill_now

\* C15 (as claimed): a non-zero exit of an external command of a step never
\* leaves run() as an exception.
C15_CommandFailureContained == ~run.exc

\* C16: once a signal is delivered, the run eventually has executed
\* cleanup() and terminated.
C16_ShutdownLive == kill_now ~> (run.pc = "done" /\ run.cleanups = 1)

C16_Witness ==
    /\ kill_now
    /\ CurrentStep = "install_mt5" /\ inst.terms = 1
    /\ run.pc = "done"

\* an install step starts the installer of the artifact it fetched
InstallerStarts ==
    /\ run.pc \in {"mono_downloaded", "mt5_downloaded", "python_downloaded"}
    /\ stat'.cmds > stat.cmds

\* C17: an installer is started only when the download_file call of the
\* step has returned success: a body received whole and verified, or a
\* cache hit.
C17_InstallerOnlyAfterSuccess ==
    [][InstallerStarts =>
         /\ dl.pc = "ret" /\ dl.result
         /\ dl.how \in {"downloaded", "hit"}
         /\ dl.how = "downloaded" =>
               (dl.verified /\ dl.written = Len(dl.body))]_vars

C17_Witness ==
    /\ CurrentStep = "install_python_wine"
    /\ run.pc = "loop"
    /\ stat.how = "interrupted"
    /\ stat.cmds = 1

\* C18 (as claimed): install_mt5 waits at most the timeout; when the wait
\* has expired or was cancelled the installer has been sent SIGTERM, and it
\* no longer runs when the step has returned.
C18_InstallerGoneOnReturn ==
    /\ run.pc = "mt5_wait" => run.elapsed <= InstallPolls
    /\ (/\ CurrentStep = "install_mt5"
        /\ run.pc = "loop"
        /\ inst.terms >= 1)
       => inst.state # "running"

\* C19 (as claimed): no sleep of the pipeline lasts a second that began
\* with the flag set and unread.
C19_FlagSeenWithinSecond == ~run.unseen

\* C20: with all steps returned, no exception and the flag unset, run() is
\* not in cleanup() and has not finished, and no tracked process has been
\* sent a signal.
C20_AliveUntilCancelled ==
    (~kill_now /\ ~run.exc)
    => /\ run.pc \notin {"cleanup", "cleanup_wait", "done"}
       /\ \A j \in 1..Len(procs) : procs[j].terms = 0 /\ procs[j].kills = 0

C20_Witness ==
    /\ run.pc = "idle" /\ ~kill_now
    /\ Len(started) = Len(steps)
    /\ Len(procs) = 2
    /\ \A j \in 1..Len(procs) : procs[j].state = "running"

\* C21: a pip install that exits non-zero stops nothing: with the flag
\* unset the packages step makes both attempts for every package and no
\* best-effort command raises out of its step; and when the port check does
\* not confirm the server, run() goes on to the idle loop with the server
\* process tracked and not signalled.
C21_BestEffortContinues ==
    /\ (/\ CurrentStep = "install_python_packages"
        /\ run.pc = "loop"
        /\ ~kill_now)
       => stat.cmds = 2 * Len(required_packages)
    /\ CurrentStep \in {"install_python_packages", "start_mt5", "start_mt5_server"}
       => ~run.exc
    /\ run.pc = "idle" => Len(started) = Len(steps)
    /\ (run.port = "unconfirmed" /\ ~kill_now)
       => /\ run.pc \in {"loop", "after_loop", "idle"}
          /\ procs # <<>>
          /\ procs[Len(procs)].cmd = "mt5linux"
          /\ procs[Len(procs)].terms = 0 /\ procs[Len(procs)].kills = 0

C21_Witness ==
    /\ run.pc = "idle" /\ ~kill_now
    /\ run.soft
    /\ run.port = "unconfirmed"
    /\ procs[Len(procs)].cmd = "mt5linux"
    /\ procs[Len(procs)].state = "running"

\* C22 (as claimed): the installers of the two artifacts KNOWN_CHECKSUMS
\* has entries for (wine-mono-8.0.0-x86.msi fetched by install_mono,
\* python-3.9.0.exe fetched by install_python_wine) are run only on content
\* whose digest is the table entry.
C22_TableEntryVerified ==
    /\ (CurrentStep = "install_mono" /\ stat.ran # NoChecksum)
       => stat.ran = KNOWN_CHECKSUMS["wine-mono-8.0.0-x86.msi"]
    /\ (CurrentStep = "install_python_wine" /\ stat.ran # NoChecksum)
       => stat.ran = KNOWN_CHECKSUMS["python-3.9.0.exe"]

\* C23 (as claimed): when run() has finished, neither a tracked background
\* process nor the installer of install_mt5 is running.
C23_NoChildLeftRunning ==
    run.pc = "done"
    => /\ inst.state # "running"
       /\ \A j \in 1..Len(procs) : procs[j].state # "running"

\* C24 (as claimed): the content a cache hit leaves at the destination is a
\* body served for the url of the call.
C24_HitContentOfLocator ==
    (dl.pc = "ret" /\ dl.how = "hit")
    => \E v \in Variants : fs.tmp[dl.name].data = Body(dl.url, v)

TypeOK ==
    /\ kill_now \in BOOLEAN
    /\ now \in 0..MaxNow
    /\ dl.pc \in {"idle", "begin", "poll", "write", "ret"}
    /\ run.unseen \in BOOLEAN
    /\ run.elapsed \in 0..(IF InstallPolls > SETTLE_DELAY THEN InstallPolls ELSE SETTLE_DELAY)
    /\ \A n \in DestNames : fs.linked[n] => fs.tmp[n] = fs.cache[n] /\ fs.tmp[n].ex
====
